---- MODULE Spec2Model ----
(***************************************************************************)
(* Model of the batch pipeline in src/scripts:                             *)
(*   process_data.py              the processor and its HDFS upload        *)
(*   direct_processing.py         the direct aggregator                    *)
(*   prepare_for_visualization.py the visualization preparer               *)
(* Files are modelled as tables: an ordered list of column names and a     *)
(* sequence of rows, each row a record over exactly those columns.         *)
(* Columns that no script reads (method, user_agent, content, ...) are     *)
(* carried through unchanged by every script and are left out.             *)
(***************************************************************************)
EXTENDS Integers, Sequences, FiniteSets, TLC

VARIABLES
    pc,              \* position of the running script
    raw,             \* data/raw: dataset -> file
    processed,       \* data/processed: dataset -> file
    web_logs_ok,     \* process_data.py:184
    social_data_ok,  \* process_data.py:185
    sensor_data_ok,  \* process_data.py:186
    calls,           \* the process_* functions __main__ has called, in order
    written,         \* the processed files written in this run
    file_idx,        \* upload_to_hdfs: index of `file` in `files`
    step,            \* upload_to_hdfs: the command the loop body is at
    cmds,            \* every shell command issued, with its exit status
    hdfs,            \* names of the files present in the HDFS directory
    upload_ret,      \* what upload_to_hdfs returned
    exports,         \* data/exports: directory name -> directory
    frames,          \* the dataframes process_data_directly ended with
    agg_ret,         \* how process_data_directly ended
    merge_failed,    \* whether pd.merge raised in this run
    export_log,      \* the export files written in this run, in order
    viz,             \* data/visualization: dataset name -> CSV file
    viz_written,     \* the CSV files written in this run
    metadata,        \* data/visualization/tableau_metadata.json
    prep_ret         \* how prepare_data_for_visualization ended

procVars == <<raw, processed, web_logs_ok, social_data_ok, sensor_data_ok,
              calls, written>>
uploadVars == <<file_idx, step, cmds, hdfs, upload_ret>>
aggVars == <<exports, frames, agg_ret, merge_failed, export_log>>
prepVars == <<viz, viz_written, metadata, prep_ret>>
vars == <<pc, procVars, uploadVars, aggVars, prepVars>>

----------------------------------------------------------------------------
(* Bounds of the model. *)

\* longest raw web-log table of the processor runs
MaxRows == 2
\* longest raw sensor table of the sensor runs
MaxSensorRows == 1
\* longest raw web-log table of the aggregator runs
MaxAggRows == 2

----------------------------------------------------------------------------
(* Tables and files. *)

\* a missing value of a dataframe (numpy.nan)
NaN == "NaN"

NoFile == [exists |-> FALSE, columns |-> <<>>, rows |-> <<>>]

Table(columns, rows) == [exists |-> TRUE, columns |-> columns, rows |-> rows]

Range(s) == {s[i] : i \in DOMAIN s}

HasCols(df, names) == names \subseteq Range(df.columns)

\* the non-empty sequences over S of length at most n
SeqsUpTo(S, n) == UNION {[1..k -> S] : k \in 1..n}

\* a table without one of its columns
DropColumn(t, c) ==
    Table(SelectSeq(t.columns, LAMBDA x : x # c),
          [i \in DOMAIN t.rows |->
              [x \in (DOMAIN t.rows[i]) \ {c} |-> t.rows[i][x]]])

\* df[name]: the column as a series
Col(df, name) == [i \in DOMAIN df.rows |-> df.rows[i][name]]

\* df[name] = series: a new last column, or an overwritten one
WithColumn(df, name, series) ==
    [df EXCEPT
        !.columns = IF name \in Range(@) THEN @ ELSE Append(@, name),
        !.rows = [i \in DOMAIN @ |->
                    [x \in (DOMAIN @[i]) \cup {name} |->
                        IF x = name THEN series[i] ELSE @[i][x]]]]

\* the strings pandas.read_csv reads as a missing value (the generator writes
\* None as the empty string)
NaValues == {"", "NA", "NaN", "null"}

ReadCell(cell) == IF cell \in NaValues THEN NaN ELSE cell

\* pandas.read_csv of a raw web-log file: user_id is the only column that
\* holds empty cells
ReadWebCsv(file) ==
    IF HasCols(file, {"user_id"})
    THEN WithColumn(file, "user_id",
                    [i \in DOMAIN file.rows |-> ReadCell(file.rows[i].user_id)])
    ELSE file

----------------------------------------------------------------------------
(* process_data.py: the three process_* functions. *)

Datasets == <<"web_logs", "social_data", "sensor_data">>

\* Series.dt.date and Series.dt.hour of a parsed timestamp column
DtDate(series) == [i \in DOMAIN series |-> series[i][1]]
DtHour(series) == [i \in DOMAIN series |-> series[i][2]]

\* fillna that fills nothing
FillNaKeeps(v, value) == v

\* Series.fillna(value)
FillNa(v, value) == IF v = NaN THEN value ELSE v

\* an error test that leaves out the edge
IsErrorStrict(status_code) == status_code > 400

\* status_code >= 400
IsError(status_code) == status_code >= 400

\* what a try block gives: the return value and the file written (NoFile:
\* nothing written, the except branch was taken)
Raised == [ok |-> FALSE, out |-> NoFile]
Returned(df) == [ok |-> TRUE, out |-> df]

ProcessWebLogsTry(file) ==
    IF ~file.exists THEN Raised                          \* read_csv raises
    ELSE LET df == ReadWebCsv(file)
         IN  IF ~HasCols(df, {"timestamp", "user_id", "status_code"})
             THEN Raised                                 \* KeyError
             ELSE LET d1 == WithColumn(df, "date", DtDate(Col(df, "timestamp")))
                      d2 == WithColumn(d1, "hour", DtHour(Col(d1, "timestamp")))
                      d3 == WithColumn(d2, "user_id",
                                [i \in DOMAIN d2.rows |->
                                    FillNa(d2.rows[i].user_id, "anonymous")])
                      d4 == WithColumn(d3, "is_error",
                                [i \in DOMAIN d3.rows |->
                                    IsError(d3.rows[i].status_code)])
                  IN  Returned(d4)

EngagementScore(r) == r.likes + (r.shares * 2) + (r.comments * 3)

SentimentScore(s) ==
    CASE s = "positive" -> 1
      [] s = "neutral" -> 0
      [] s = "negative" -> -1
      [] OTHER -> NaN

ProcessSocialDataTry(file) ==
    IF ~file.exists THEN Raised                          \* open raises
    ELSE IF ~HasCols(file, {"timestamp", "likes", "shares", "comments",
                            "sentiment"})
         THEN Raised                                     \* KeyError
         ELSE LET d1 == WithColumn(file, "date", DtDate(Col(file, "timestamp")))
                  d2 == WithColumn(d1, "hour", DtHour(Col(d1, "timestamp")))
                  d3 == WithColumn(d2, "engagement_score",
                            [i \in DOMAIN d2.rows |-> EngagementScore(d2.rows[i])])
                  d4 == WithColumn(d3, "sentiment_score",
                            [i \in DOMAIN d3.rows |->
                                SentimentScore(d3.rows[i].sentiment)])
              IN  Returned(d4)

IsActive(status) == status = "active"

Bins == <<0, 20, 50, 80, 100>>
Labels == <<"critical", "low", "medium", "high">>

\* pandas.cut(x, bins, labels): right-closed intervals (bins[i], bins[i+1]],
\* NaN for a value in none of them
Cut(x) ==
    LET hit == {i \in DOMAIN Labels : Bins[i] < x /\ x <= Bins[i + 1]}
    IN  IF hit = {} THEN NaN ELSE Labels[CHOOSE i \in hit : TRUE]

ProcessSensorDataTry(file) ==
    IF ~file.exists THEN Raised                          \* read_csv raises
    ELSE IF ~HasCols(file, {"timestamp", "status", "battery_level"})
         THEN Raised                                     \* KeyError
         ELSE LET d1 == WithColumn(file, "date", DtDate(Col(file, "timestamp")))
                  d2 == WithColumn(d1, "hour", DtHour(Col(d1, "timestamp")))
                  d3 == WithColumn(d2, "is_active",
                            [i \in DOMAIN d2.rows |->
                                IsActive(d2.rows[i].status)])
                  d4 == WithColumn(d3, "battery_category",
                            [i \in DOMAIN d3.rows |->
                                Cut(d3.rows[i].battery_level)])
              IN  Returned(d4)

----------------------------------------------------------------------------
(* process_data.py: __main__ and upload_to_hdfs. *)

\* an except branch that reports success
ExceptReturnTrue == TRUE

\* the except branch of a process_* function returns False
ExceptReturn == FALSE

ProcessWebLogs ==
    /\ pc = "web"
    /\ LET res == ProcessWebLogsTry(raw.web_logs)
       IN  /\ web_logs_ok' = IF res.ok THEN TRUE ELSE ExceptReturn
           /\ processed' = IF res.ok
                           THEN [processed EXCEPT !.web_logs = res.out]
                           ELSE processed
           /\ written' = IF res.ok THEN written \cup {"web_logs"} ELSE written
    /\ calls' = Append(calls, "process_web_logs")
    /\ pc' = "social"
    /\ UNCHANGED <<raw, social_data_ok, sensor_data_ok, uploadVars, aggVars, prepVars>>

ProcessSocialData ==
    /\ pc = "social"
    /\ LET res == ProcessSocialDataTry(raw.social_data)
       IN  /\ social_data_ok' = IF res.ok THEN TRUE ELSE ExceptReturn
           /\ processed' = IF res.ok
                           THEN [processed EXCEPT !.social_data = res.out]
                           ELSE processed
           /\ written' = IF res.ok THEN written \cup {"social_data"}
                         ELSE written
    /\ calls' = Append(calls, "process_social_data")
    /\ pc' = "sensor"
    /\ UNCHANGED <<raw, web_logs_ok, sensor_data_ok, uploadVars, aggVars, prepVars>>

ProcessSensorData ==
    /\ pc = "sensor"
    /\ LET res == ProcessSensorDataTry(raw.sensor_data)
       IN  /\ sensor_data_ok' = IF res.ok THEN TRUE ELSE ExceptReturn
           /\ processed' = IF res.ok
                           THEN [processed EXCEPT !.sensor_data = res.out]
                           ELSE processed
           /\ written' = IF res.ok THEN written \cup {"sensor_data"}
                         ELSE written
    /\ calls' = Append(calls, "process_sensor_data")
    /\ pc' = "decide"
    /\ UNCHANGED <<raw, web_logs_ok, social_data_ok, uploadVars, aggVars, prepVars>>

\* a guard that forgets the sensor flag
UploadGuardTwo == web_logs_ok /\ social_data_ok

\* process_data.py:189
UploadGuard == web_logs_ok /\ social_data_ok /\ sensor_data_ok

\* `files` of upload_to_hdfs, by base name
Files == <<"web_logs_processed.csv", "social_data_processed.csv",
           "sensor_data_processed.csv">>

\* the three commands of the loop body, in program order
Steps == <<"mkdir", "cp", "put">>

ExitCodes == {0, 1}

\* subprocess.run without check=True never raises
CheckIgnored(exit) == FALSE

\* subprocess.run(..., check=True) raises CalledProcessError
CheckRaises(exit) == exit # 0

StepIndex(s) == CHOOSE k \in DOMAIN Steps : Steps[k] = s

\* __main__ after the three process_* calls: upload or skip
Decide ==
    /\ pc = "decide"
    /\ IF UploadGuard
       THEN /\ pc' = "upload"
            /\ file_idx' = 1
            /\ step' = Steps[1]
       ELSE /\ pc' = "done"
            /\ UNCHANGED <<file_idx, step>>
    /\ UNCHANGED <<procVars, cmds, hdfs, upload_ret, aggVars, prepVars>>

\* one subprocess.run of upload_to_hdfs and what follows it up to the next
\* one (or up to the return)
RunCommand ==
    /\ pc = "upload"
    /\ \E exit \in ExitCodes :
        /\ cmds' = Append(cmds, [cmd |-> step, file |-> Files[file_idx],
                                 exit |-> exit])
        /\ hdfs' = IF step = "put" /\ exit = 0
                   THEN hdfs \cup {Files[file_idx]}
                   ELSE hdfs
        /\ IF CheckRaises(exit)
           THEN /\ upload_ret' = "False"
                /\ pc' = "done"
                /\ UNCHANGED <<file_idx, step>>
           ELSE IF StepIndex(step) < Len(Steps)
           THEN /\ step' = Steps[StepIndex(step) + 1]
                /\ UNCHANGED <<file_idx, pc, upload_ret>>
           ELSE IF file_idx < Len(Files)
           THEN /\ file_idx' = file_idx + 1
                /\ step' = Steps[1]
                /\ UNCHANGED <<pc, upload_ret>>
           ELSE /\ upload_ret' = "True"
                /\ pc' = "done"
                /\ UNCHANGED <<file_idx, step>>
    /\ UNCHANGED <<procVars, aggVars, prepVars>>

----------------------------------------------------------------------------
(* direct_processing.py: groupby, agg, merge and to_csv. *)

\* the strings of the key columns, in the order a sort puts them
StrOrder == <<"/about", "/home", "co2", "facebook", "product", "room1",
              "room2", "service", "twitter">>

StringColumns == {"endpoint", "platform", "category", "sensor_type",
                  "location"}

BoolColumns == {"is_error", "is_active"}

IndexOf(seq, v) == CHOOSE k \in DOMAIN seq : seq[k] = v

\* the position of a key value in the sort order of its column
Rank(c, v) == IF c \in StringColumns THEN IndexOf(StrOrder, v) ELSE v

\* lexicographic order on the key tuples of the columns `keys`
KeyLess(keys, a, b) ==
    \E j \in DOMAIN keys :
        /\ \A i \in 1..(j - 1) : a[i] = b[i]
        /\ Rank(keys[j], a[j]) < Rank(keys[j], b[j])

RECURSIVE SortKeys(_, _)
SortKeys(keys, K) ==
    IF K = {} THEN <<>>
    ELSE LET m == CHOOSE x \in K : \A y \in K \ {x} : KeyLess(keys, x, y)
         IN  <<m>> \o SortKeys(keys, K \ {m})

KeyOf(r, keys) == [j \in DOMAIN keys |-> r[keys[j]]]

RECURSIVE SumSeq(_)
SumSeq(s) == IF s = <<>> THEN 0 ELSE Head(s) + SumSeq(Tail(s))

RECURSIVE MinSeq(_)
MinSeq(s) ==
    IF Len(s) = 1 THEN s[1]
    ELSE LET m == MinSeq(Tail(s)) IN IF s[1] < m THEN s[1] ELSE m

RECURSIVE MaxSeq(_)
MaxSeq(s) ==
    IF Len(s) = 1 THEN s[1]
    ELSE LET m == MaxSeq(Tail(s)) IN IF s[1] > m THEN s[1] ELSE m

\* a boolean column sums as 0/1
Num(c, v) == IF c \in BoolColumns THEN (IF v THEN 1 ELSE 0) ELSE v

\* one aggregation of one column of a group. The inputs of the model hold no
\* missing cell in an aggregated column, so 'count' is the group's length.
\* A mean is the exact quotient <<sum, count>>.
AggValue(how, c, series) ==
    LET nums == [i \in DOMAIN series |-> Num(c, series[i])]
    IN  CASE how = "count" -> Len(series)
          [] how = "sum" -> SumSeq(nums)
          [] how = "mean" -> <<SumSeq(nums), Len(series)>>
          [] how = "min" -> MinSeq(nums)
          [] how = "max" -> MaxSeq(nums)
          [] how = "nunique" -> Cardinality(Range(series))

\* df.groupby(keys).agg(aggs).reset_index(): one row per key tuple that
\* occurs, sorted by key; aggs is a sequence of [col, how, name]
GroupByAgg(df, keys, aggs) ==
    LET sorted == SortKeys(keys, {KeyOf(df.rows[i], keys) : i \in DOMAIN df.rows})
        names == [j \in DOMAIN aggs |-> aggs[j].name]
        Row(k) ==
            LET grp == SelectSeq(df.rows, LAMBDA r : KeyOf(r, keys) = k)
            IN  [x \in Range(keys) \cup Range(names) |->
                    IF x \in Range(keys) THEN k[IndexOf(keys, x)]
                    ELSE LET a == aggs[IndexOf(names, x)]
                         IN  AggValue(a.how, a.col,
                                      [i \in DOMAIN grp |-> grp[i][a.col]])]
    IN  Table(keys \o names, [n \in DOMAIN sorted |-> Row(sorted[n])])

Agg(c, how) == [col |-> c, how |-> how, name |-> c]
AggAs(c, how, name) == [col |-> c, how |-> how, name |-> name]

\* df.columns = names: the columns renamed by position
SetColumns(df, names) ==
    Table(names,
          [i \in DOMAIN df.rows |->
              [x \in Range(names) |->
                  df.rows[i][df.columns[IndexOf(names, x)]]]])

RECURSIVE MergeRows(_, _, _)
MergeRows(lrows, rrows, on) ==
    IF lrows = <<>> THEN <<>>
    ELSE LET l == Head(lrows)
             match == SelectSeq(rrows, LAMBDA r : r[on] = l[on])
         IN  [j \in DOMAIN match |-> l @@ match[j]]
                \o MergeRows(Tail(lrows), rrows, on)

\* a left join: a left row without a match is kept, filled with NaN
MergeLeft(left, right, on) ==
    LET rest == SelectSeq(right.columns, LAMBDA c : c # on)
        fill == [x \in Range(rest) |-> NaN]
        Join(l) ==
            LET match == SelectSeq(right.rows, LAMBDA r : r[on] = l[on])
            IN  IF match = <<>> THEN l @@ fill ELSE l @@ match[1]
    IN  Table(left.columns \o rest,
              [i \in DOMAIN left.rows |-> Join(left.rows[i])])

\* pd.merge(left, right, on=on): the inner join, in the order of left's rows
Merge(left, right, on) ==
    Table(left.columns \o SelectSeq(right.columns, LAMBDA c : c # on),
          MergeRows(left.rows, right.rows, on))

WebTrafficDailyColumns ==
    <<"date", "endpoint", "total_requests", "error_count",
      "avg_response_time", "unique_visitors">>

WebTrafficHourlyColumns ==
    <<"date", "hour", "total_requests", "error_count", "avg_response_time">>

SocialEngagementColumns ==
    <<"date", "platform", "category", "post_count", "total_likes",
      "total_shares", "total_comments", "avg_engagement", "avg_sentiment">>

SensorReadingsColumns ==
    <<"date", "sensor_type", "location", "reading_count", "avg_value",
      "min_value", "max_value", "active_readings">>

WebDailyColumns ==
    <<"date", "total_requests", "error_count", "avg_response_time">>

SocialDailyColumns ==
    <<"date", "post_count", "total_likes", "total_shares", "total_comments",
      "avg_engagement", "avg_sentiment">>

WebAggs == <<Agg("status_code", "count"), Agg("is_error", "sum"),
             Agg("response_time", "mean")>>

SocialAggs == <<Agg("post_id", "count"), Agg("likes", "sum"),
                Agg("shares", "sum"), Agg("comments", "sum"),
                Agg("engagement_score", "mean"),
                Agg("sentiment_score", "mean")>>

WebTrafficDaily(web_logs) ==
    SetColumns(GroupByAgg(web_logs, <<"date", "endpoint">>,
                          WebAggs \o <<Agg("ip_address", "nunique")>>),
               WebTrafficDailyColumns)

WebTrafficHourly(web_logs) ==
    SetColumns(GroupByAgg(web_logs, <<"date", "hour">>, WebAggs),
               WebTrafficHourlyColumns)

SocialEngagementDaily(social_data) ==
    SetColumns(GroupByAgg(social_data, <<"date", "platform", "category">>,
                          SocialAggs),
               SocialEngagementColumns)

SensorReadingsDaily(sensor_data) ==
    LET g == GroupByAgg(sensor_data, <<"date", "sensor_type", "location">>,
                 <<AggAs("sensor_id", "count", "sensor_id_count"),
                   AggAs("value", "mean", "value_mean"),
                   AggAs("value", "min", "value_min"),
                   AggAs("value", "max", "value_max"),
                   AggAs("is_active", "sum", "is_active_sum")>>)
        d == SetColumns(g, SensorReadingsColumns)
    IN  WithColumn(d, "error_readings",
            [i \in DOMAIN d.rows |->
                d.rows[i].reading_count - d.rows[i].active_readings])

WebDaily(web_logs) ==
    SetColumns(GroupByAgg(web_logs, <<"date">>, WebAggs), WebDailyColumns)

SocialDaily(social_data) ==
    SetColumns(GroupByAgg(social_data, <<"date">>, SocialAggs),
               SocialDailyColumns)

\* a placeholder whose request totals are dummies too
PlaceholderAllDummy(web_daily) ==
    Table(WebDailyColumns \o Tail(SocialDailyColumns),
          [i \in DOMAIN web_daily.rows |->
              [date |-> web_daily.rows[i].date,
               total_requests |-> 1000, error_count |-> 0,
               avg_response_time |-> web_daily.rows[i].avg_response_time,
               post_count |-> 100, total_likes |-> 500,
               total_shares |-> 200, total_comments |-> 300,
               avg_engagement |-> 50, avg_sentiment |-> <<1, 2>>]])

\* the dummy correlation dataset built when the merge raises
Placeholder(web_daily) ==
    Table(WebDailyColumns \o Tail(SocialDailyColumns),
          [i \in DOMAIN web_daily.rows |->
              [date |-> web_daily.rows[i].date,
               total_requests |-> web_daily.rows[i].total_requests,
               error_count |-> web_daily.rows[i].error_count,
               avg_response_time |-> web_daily.rows[i].avg_response_time,
               post_count |-> 100, total_likes |-> 500,
               total_shares |-> 200, total_comments |-> 300,
               avg_engagement |-> 50, avg_sentiment |-> <<1, 2>>]])

\* the try/except around pd.merge
CorrelationData(web_daily, social_daily, mergeRaises) ==
    IF mergeRaises THEN Placeholder(web_daily)
    ELSE Merge(web_daily, social_daily, "date")

\* the columns the aggregations look up in each processed table
NeededColumns ==
    [web_logs |-> {"date", "endpoint", "hour", "status_code", "is_error",
                   "response_time", "ip_address"},
     social_data |-> {"date", "platform", "category", "post_id", "likes",
                      "shares", "comments", "engagement_score",
                      "sentiment_score"},
     sensor_data |-> {"date", "sensor_type", "location", "sensor_id",
                      "value", "is_active"}]

NoFrames ==
    [web_traffic_daily |-> NoFile, web_traffic_hourly |-> NoFile,
     social_engagement_daily |-> NoFile, sensor_readings_daily |-> NoFile,
     web_daily |-> NoFile, social_daily |-> NoFile,
     correlation_data |-> NoFile]

\* the dataframes of process_data_directly, lines 41-120
ComputeFrames(proc, mergeRaises) ==
    LET web_daily == WebDaily(proc.web_logs)
        social_daily == SocialDaily(proc.social_data)
    IN  [web_traffic_daily |-> WebTrafficDaily(proc.web_logs),
         web_traffic_hourly |-> WebTrafficHourly(proc.web_logs),
         social_engagement_daily |-> SocialEngagementDaily(proc.social_data),
         sensor_readings_daily |-> SensorReadingsDaily(proc.sensor_data),
         web_daily |-> web_daily,
         social_daily |-> social_daily,
         correlation_data |->
             CorrelationData(web_daily, social_daily, mergeRaises)]

\* the export directories, in the order they are created, and the dataframe
\* each one receives
ExportDirs == <<"web_traffic_by_endpoint", "web_traffic_hourly",
                "social_engagement", "sensor_readings", "correlation_data">>

ExportFrame ==
    [web_traffic_by_endpoint |-> "web_traffic_daily",
     web_traffic_hourly |-> "web_traffic_hourly",
     social_engagement |-> "social_engagement_daily",
     sensor_readings |-> "sensor_readings_daily",
     correlation_data |-> "correlation_data"]

ExportFileName == "000000_0"

NoDir == [exists |-> FALSE, files |-> <<>>]

\* df.to_csv(path, index=False, header=False): the rows as lines of cells in
\* column order; the column names are not written
ToCsvLines(df) ==
    [i \in DOMAIN df.rows |->
        [k \in DOMAIN df.columns |-> df.rows[i][df.columns[k]]]]

\* os.makedirs(dir, exist_ok=True), then to_csv over the fixed file name
WriteExport(dir, df) ==
    [exists |-> TRUE,
     files |-> (ExportFileName :> ToCsvLines(df)) @@ dir.files]

\* the to_csv calls, in the order of the statements
SaveOrderByName == <<"correlation_data", "sensor_readings",
                     "social_engagement", "web_traffic_by_endpoint",
                     "web_traffic_hourly">>

SaveOrder == <<"web_traffic_by_endpoint", "web_traffic_hourly",
               "social_engagement", "sensor_readings", "correlation_data">>

\* the "Save results" block: the files of `order` written one after the
\* other; [dirs, log] are the directories afterwards and the files written
RECURSIVE SaveAll(_, _, _)
SaveAll(dirs, fr, order) ==
    IF order = <<>> THEN [dirs |-> dirs, log |-> <<>>]
    ELSE LET d == Head(order)
             rest == SaveAll([dirs EXCEPT ![d] =
                                 WriteExport(dirs[d], fr[ExportFrame[d]])],
                             fr, Tail(order))
         IN  [dirs |-> rest.dirs, log |-> <<d>> \o rest.log]

\* process_data_directly, the whole script
ProcessDataDirectly ==
    /\ pc = "aggregate"
    /\ \E mergeRaises \in BOOLEAN :
        IF \E d \in Range(Datasets) : ~processed[d].exists
        THEN \* pd.read_csv raises: "Error loading data", return
             /\ agg_ret' = "returned"
             /\ UNCHANGED <<exports, frames, merge_failed, export_log>>
        ELSE IF \E d \in Range(Datasets) :
                    ~HasCols(processed[d], NeededColumns[d])
        THEN \* KeyError in a groupby, outside every try
             /\ agg_ret' = "raised"
             /\ UNCHANGED <<exports, frames, merge_failed, export_log>>
        ELSE /\ frames' = ComputeFrames(processed, mergeRaises)
             /\ merge_failed' = mergeRaises
             /\ exports' = SaveAll(exports, frames', SaveOrder).dirs
             /\ export_log' = SaveAll(exports, frames', SaveOrder).log
             /\ agg_ret' = "completed"
    /\ pc' = "prepare"
    /\ UNCHANGED <<procVars, uploadVars, prepVars>>

----------------------------------------------------------------------------
(* prepare_for_visualization.py. *)

\* the keys of `datasets`, in insertion order; the k-th is loaded from the
\* k-th directory of ExportDirs
VizDatasets == <<"web_traffic", "web_hourly", "social", "sensor",
                 "correlation">>

\* os.listdir(path)
ListDir(dir) == DOMAIN dir.files

\* column lists in which the hourly list names two counts the wrong way round
ColsForSwapped(path) ==
    IF path = "web_traffic_by_endpoint" THEN WebTrafficDailyColumns
    ELSE IF path = "web_traffic_hourly"
    THEN <<"date", "hour", "error_count", "total_requests",
           "avg_response_time">>
    ELSE IF path = "social_engagement" THEN SocialEngagementColumns
    ELSE IF path = "sensor_readings"
    THEN Append(SensorReadingsColumns, "error_readings")
    ELSE IF path = "correlation_data"
    THEN WebDailyColumns \o Tail(SocialDailyColumns)
    ELSE <<>>

\* load_data: the column names chosen from the path. The five paths are
\* 'data/exports/' + name and no name is a part of another, so `name in
\* path` is equality with the directory name.
ColsFor(path) ==
    IF path = "web_traffic_by_endpoint"
    THEN <<"date", "endpoint", "total_requests", "error_count",
           "avg_response_time", "unique_visitors">>
    ELSE IF path = "web_traffic_hourly"
    THEN <<"date", "hour", "total_requests", "error_count",
           "avg_response_time">>
    ELSE IF path = "social_engagement"
    THEN <<"date", "platform", "category", "post_count", "total_likes",
           "total_shares", "total_comments", "avg_engagement",
           "avg_sentiment">>
    ELSE IF path = "sensor_readings"
    THEN <<"date", "sensor_type", "location", "reading_count", "avg_value",
           "min_value", "max_value", "active_readings", "error_readings">>
    ELSE IF path = "correlation_data"
    THEN <<"date", "total_requests", "error_count", "avg_response_time",
           "post_count", "total_likes", "total_shares", "total_comments",
           "avg_engagement", "avg_sentiment">>
    ELSE <<>>

\* pd.read_csv(path, header=None, names=cols): the cells of every line named
\* by position. A line longer than cols gives its leading cells to the index,
\* a shorter one is filled with NaN; a file without lines is a dataframe
\* without rows.
ReadCsvNames(lines, cols) ==
    Table(cols,
          [i \in DOMAIN lines |->
              LET off == IF Len(lines[i]) > Len(cols)
                         THEN Len(lines[i]) - Len(cols) ELSE 0
              IN  [x \in Range(cols) |->
                      LET k == IndexOf(cols, x) + off
                      IN  IF k <= Len(lines[i]) THEN lines[i][k] ELSE NaN]])

\* pd.to_datetime of a date cell: a date is a day of January 2024
ToDatetime(d) == [year |-> 2024, month |-> 1, day |-> d]

\* strftime('%Y-%m-%d')
StrfTime(ts) == <<ts.year, ts.month, ts.day>>

DayNames == <<"Monday", "Tuesday", "Wednesday", "Thursday", "Friday",
              "Saturday", "Sunday">>

\* Series.dt.day_name(): 2024-01-01 is a Monday
DayName(ts) == DayNames[((ts.day - 1) % 7) + 1]

\* load_data(path): [raised, df]; df = NoFile stands for None. `first` is
\* the name os.listdir returns first.
LoadData(path, dir, first) ==
    IF ExportFileName \notin ListDir(dir) /\ ~dir.exists
    THEN [raised |-> TRUE, df |-> NoFile]      \* os.listdir raises
    ELSE IF ExportFileName \notin ListDir(dir) /\ ListDir(dir) = {}
    THEN [raised |-> FALSE, df |-> NoFile]     \* "No files found"
    ELSE LET name == IF ExportFileName \in ListDir(dir)
                     THEN ExportFileName ELSE first
             df == ReadCsvNames(dir.files[name], ColsFor(path))
         IN  [raised |-> FALSE,
              df |-> IF "date" \in Range(df.columns)
                     THEN WithColumn(df, "date",
                              [i \in DOMAIN df.rows |->
                                  ToDatetime(df.rows[i].date)])
                     ELSE df]

\* the first loop body: the calendar columns and the dataset tag
Formatted(name, df) ==
    LET d0 == IF "date" \in Range(df.columns)
              THEN LET d1 == WithColumn(df, "date_str",
                                 [i \in DOMAIN df.rows |->
                                     StrfTime(df.rows[i].date)])
                       d2 == WithColumn(d1, "year",
                                 [i \in DOMAIN d1.rows |-> d1.rows[i].date.year])
                       d3 == WithColumn(d2, "month",
                                 [i \in DOMAIN d2.rows |-> d2.rows[i].date.month])
                       d4 == WithColumn(d3, "day",
                                 [i \in DOMAIN d3.rows |-> d3.rows[i].date.day])
                   IN  WithColumn(d4, "day_of_week",
                           [i \in DOMAIN d4.rows |-> DayName(d4.rows[i].date)])
              ELSE df
    IN  WithColumn(d0, "dataset_type", [i \in DOMAIN d0.rows |-> name])

\* one entry of metadata['datasets']
MetadataEntryAsLoaded(name, df) ==
    [filename |-> <<name, "_data.csv">>,
     record_count |-> Len(df.rows),
     columns |-> SelectSeq(df.columns, LAMBDA c : c # "dataset_type"),
     sample_path |-> <<"data/visualization/", name, "_data.csv">>]

MetadataEntry(name, df) ==
    [filename |-> <<name, "_data.csv">>,
     record_count |-> Len(df.rows),
     columns |-> df.columns,
     sample_path |-> <<"data/visualization/", name, "_data.csv">>]

\* the names os.listdir may return first, one per directory
FirstNames ==
    {f \in [Range(ExportDirs) -> {"none"} \cup UNION {ListDir(exports[d]) :
                                                      d \in Range(ExportDirs)}] :
        \A d \in Range(ExportDirs) :
            IF ListDir(exports[d]) = {} THEN f[d] = "none"
            ELSE f[d] \in ListDir(exports[d])}

\* prepare_data_for_visualization, the whole script
PrepareDataForVisualization ==
    /\ pc = "prepare"
    /\ \E first \in FirstNames :
        LET load == [k \in DOMAIN VizDatasets |->
                        LoadData(ExportDirs[k], exports[ExportDirs[k]],
                                 first[ExportDirs[k]])]
            ok == {k \in DOMAIN VizDatasets : load[k].df.exists}
            out == [k \in DOMAIN VizDatasets |->
                        IF k \in ok THEN Formatted(VizDatasets[k], load[k].df)
                        ELSE NoFile]
        IN  IF \E k \in DOMAIN VizDatasets : load[k].raised
            THEN \* FileNotFoundError leaves load_data and the script
                 /\ prep_ret' = "raised"
                 /\ UNCHANGED <<viz, viz_written, metadata>>
            ELSE /\ viz' = [n \in Range(VizDatasets) |->
                               IF IndexOf(VizDatasets, n) \in ok
                               THEN out[IndexOf(VizDatasets, n)]
                               ELSE viz[n]]
                 /\ viz_written' = {VizDatasets[k] : k \in ok}
                 /\ metadata' =
                        [exists |-> TRUE,
                         datasets |-> [n \in {VizDatasets[k] : k \in ok} |->
                                          MetadataEntry(n, out[IndexOf(VizDatasets, n)])]]
                 /\ prep_ret' = "completed"
    /\ pc' = "finished"
    /\ UNCHANGED <<procVars, uploadVars, aggVars>>

----------------------------------------------------------------------------
(* The raw inputs of the processor runs. *)

WebColumns == <<"timestamp", "ip_address", "user_id", "endpoint",
                "status_code", "response_time">>

\* a timestamp is <<day of January 2024, hour>>
RawWebRows ==
    [timestamp : {<<1, 9>>, <<2, 10>>}, ip_address : {"10.0.0.1"},
     user_id : {"", "u1"}, endpoint : {"/home"},
     status_code : {200, 400}, response_time : {100}]

RawWebTables == {Table(WebColumns, rows) : rows \in SeqsUpTo(RawWebRows, MaxRows)}

RawWebFiles ==
    {NoFile} \cup RawWebTables
             \cup {DropColumn(t, "user_id") : t \in RawWebTables}

SocialColumns == <<"post_id", "timestamp", "likes", "shares", "comments",
                   "sentiment", "category", "platform">>

RawSocialSample ==
    Table(SocialColumns,
          <<[post_id |-> "p1", timestamp |-> <<1, 9>>, likes |-> 3,
             shares |-> 2, comments |-> 1, sentiment |-> "positive",
             category |-> "product", platform |-> "twitter"]>>)

RawSocialFiles ==
    {NoFile, RawSocialSample, DropColumn(RawSocialSample, "likes")}

SensorColumns == <<"timestamp", "sensor_id", "sensor_type", "location",
                   "value", "battery_level", "status">>

RawSensorRows(levels) ==
    [timestamp : {<<1, 9>>}, sensor_id : {"SENS-1000"},
     sensor_type : {"co2"}, location : {"room1"}, value : {400},
     battery_level : levels, status : {"active", "error"}]

RawSensorFiles ==
    {NoFile} \cup {Table(SensorColumns, <<r>>) : r \in RawSensorRows({50})}

\* no processor process is running
InitProcess ==
    /\ web_logs_ok = FALSE
    /\ social_data_ok = FALSE
    /\ sensor_data_ok = FALSE
    /\ calls = <<>>
    /\ written = {}

InitUpload ==
    /\ file_idx = 0
    /\ step = "none"
    /\ cmds = <<>>
    /\ hdfs = {}
    /\ upload_ret = "not called"

\* the aggregator has not run
InitAggregator ==
    /\ frames = NoFrames
    /\ agg_ret = "not run"
    /\ merge_failed = FALSE
    /\ export_log = <<>>

\* nothing was exported yet
InitExports ==
    /\ exports = [d \in Range(ExportDirs) |-> NoDir]
    /\ InitAggregator

\* nothing was prepared yet
InitViz ==
    /\ viz = [n \in Range(VizDatasets) |-> NoFile]
    /\ viz_written = {}
    /\ metadata = [exists |-> FALSE, datasets |-> <<>>]
    /\ prep_ret = "not run"

InitRun ==
    /\ processed = [web_logs |-> NoFile, social_data |-> NoFile,
                    sensor_data |-> NoFile]
    /\ InitProcess
    /\ InitUpload
    /\ InitExports
    /\ InitViz

Init ==
    /\ pc = "web"
    /\ raw \in [web_logs : RawWebFiles, social_data : RawSocialFiles,
                sensor_data : RawSensorFiles]
    /\ InitRun

Next ==
    \/ ProcessWebLogs
    \/ ProcessSocialData
    \/ ProcessSensorData
    \/ Decide
    \/ RunCommand

Spec == Init /\ [][Next]_vars

----------------------------------------------------------------------------
(* process_sensor_data called on its own, over every battery level. *)

BatteryLevels == 0..100

InitSensor ==
    /\ pc = "sensor"
    /\ \E rows \in SeqsUpTo(RawSensorRows(BatteryLevels), MaxSensorRows) :
          raw = [web_logs |-> NoFile, social_data |-> NoFile,
                 sensor_data |-> Table(SensorColumns, rows)]
    /\ InitRun

NextSensor == ProcessSensorData

SpecSensor == InitSensor /\ [][NextSensor]_vars

----------------------------------------------------------------------------
(* The aggregator and the visualization preparer, run after the processor. *)
(* The processed files are what the processor writes from the raw files;   *)
(* a raw file that makes its process_* function fail leaves no processed   *)
(* file.                                                                   *)

AggWebRows ==
    [timestamp : {<<1, 9>>, <<2, 10>>}, ip_address : {"10.0.0.1"},
     user_id : {"u1"}, endpoint : {"/home", "/about"},
     status_code : {200, 400}, response_time : {100}]

AggWebTables == {Table(WebColumns, rows) : rows \in SeqsUpTo(AggWebRows, MaxAggRows)}

SocialRow(day, likes, platform) ==
    [post_id |-> "p1", timestamp |-> <<day, 9>>, likes |-> likes,
     shares |-> 2, comments |-> 1, sentiment |-> "positive",
     category |-> "product", platform |-> platform]

AggSocialTables ==
    {Table(SocialColumns, <<SocialRow(1, 3, "twitter")>>),
     Table(SocialColumns, <<SocialRow(2, 5, "twitter")>>),
     Table(SocialColumns, <<SocialRow(3, 3, "facebook")>>),
     Table(SocialColumns, <<SocialRow(2, 3, "twitter"),
                            SocialRow(1, 4, "facebook"),
                            SocialRow(2, 7, "twitter")>>)}

SensorRow(day, location, value, status) ==
    [timestamp |-> <<day, 9>>, sensor_id |-> "SENS-1000",
     sensor_type |-> "co2", location |-> location, value |-> value,
     battery_level |-> 50, status |-> status]

AggSensorTable ==
    Table(SensorColumns, <<SensorRow(1, "room2", 400, "active"),
                           SensorRow(1, "room1", 500, "error"),
                           SensorRow(1, "room2", 450, "error")>>)

AggWebSample == CHOOSE t \in AggWebTables : Len(t.rows) = 1

\* every web-log table with every social table, and the runs in which a raw
\* file is missing or lacks a column
AggSmallInputs ==
    [web_logs : {NoFile, AggWebSample, DropColumn(AggWebSample, "endpoint")},
     social_data : {NoFile, CHOOSE t \in AggSocialTables : TRUE},
     sensor_data : {NoFile, AggSensorTable}]

AggRawInputs ==
    [web_logs : AggWebTables, social_data : AggSocialTables,
     sensor_data : {AggSensorTable}]
    \cup AggSmallInputs

\* data/exports as an earlier complete run of the aggregator left it
EarlierExports ==
    LET fr == ComputeFrames(
                  [web_logs |-> ProcessWebLogsTry(AggWebSample).out,
                   social_data |-> ProcessSocialDataTry(
                       CHOOSE t \in AggSocialTables : TRUE).out,
                   sensor_data |-> ProcessSensorDataTry(AggSensorTable).out],
                  FALSE)
    IN  [d \in Range(ExportDirs) |-> WriteExport(NoDir, fr[ExportFrame[d]])]

\* a directory that holds the same lines under other file names, as a Hive
\* export leaves them
HiveDir(dir, names) ==
    [exists |-> TRUE,
     files |-> [n \in names |->
                   IF n = "000001_0" THEN dir.files[ExportFileName]
                   ELSE dir.files[ExportFileName]
                        \o dir.files[ExportFileName]]]

\* data/exports before the aggregator runs: absent, left by an earlier run,
\* holding files of other names or none, or with one directory removed
EarlierExportStates ==
    {[d \in Range(ExportDirs) |-> NoDir],
     EarlierExports,
     [web_traffic_by_endpoint |->
          HiveDir(EarlierExports.web_traffic_by_endpoint, {"000001_0"}),
      web_traffic_hourly |-> HiveDir(EarlierExports.web_traffic_hourly, {}),
      social_engagement |->
          HiveDir(EarlierExports.social_engagement, {"000001_0", "000002_0"}),
      sensor_readings |-> EarlierExports.sensor_readings,
      correlation_data |-> HiveDir(EarlierExports.correlation_data, {})],
     [EarlierExports EXCEPT !.correlation_data = NoDir]}

InitAgg ==
    /\ pc = "aggregate"
    /\ raw \in AggRawInputs
    /\ processed = [web_logs |-> ProcessWebLogsTry(raw.web_logs).out,
                    social_data |-> ProcessSocialDataTry(raw.social_data).out,
                    sensor_data |-> ProcessSensorDataTry(raw.sensor_data).out]
    /\ InitProcess
    /\ InitUpload
    /\ exports \in IF raw \in AggSmallInputs THEN EarlierExportStates
                   ELSE {[d \in Range(ExportDirs) |-> NoDir]}
    /\ InitAggregator
    /\ InitViz

NextAgg ==
    \/ ProcessDataDirectly
    \/ PrepareDataForVisualization

SpecAgg == InitAgg /\ [][NextAgg]_vars

----------------------------------------------------------------------------
(* The processor's main run. *)

AllCalls == <<"process_web_logs", "process_social_data",
              "process_sensor_data">>

AfterProcessing == pc \in {"decide", "upload", "done"}

\* C1: the upload is entered, and a command issued, only when all three
\* process_* functions returned True; a run in which one of them returned
\* False issues no command at all.
C1_UploadOnlyIfAllOk ==
    (pc = "upload" \/ cmds # <<>> \/ upload_ret # "not called")
        => (web_logs_ok /\ social_data_ok /\ sensor_data_ok)

C1_Witness ==
    /\ pc = "done"
    /\ Len(cmds) = Len(Files) * Len(Steps)
    /\ upload_ret = "True"

\* C3: every run calls the three process_* functions once each, in order,
\* whatever the earlier ones returned, and a dataset's flag is True exactly
\* when its own processed file was written in this run.
C3_PerDatasetFlags ==
    /\ \E n \in 0..Len(AllCalls) : calls = SubSeq(AllCalls, 1, n)
    /\ AfterProcessing =>
        /\ calls = AllCalls
        /\ web_logs_ok <=> "web_logs" \in written
        /\ social_data_ok <=> "social_data" \in written
        /\ sensor_data_ok <=> "sensor_data" \in written
        /\ \A d \in Range(Datasets) : processed[d].exists <=> d \in written

C3_Witness ==
    /\ pc = "done"
    /\ ~web_logs_ok
    /\ social_data_ok
    /\ sensor_data_ok
    /\ written = {"social_data", "sensor_data"}

\* the command upload_to_hdfs issues as its j-th
ExpectedCmd(j) ==
    [cmd |-> Steps[((j - 1) % Len(Steps)) + 1],
     file |-> Files[((j - 1) \div Len(Steps)) + 1]]

AllZero == \A j \in DOMAIN cmds : cmds[j].exit = 0

\* C4: the commands are issued file by file in list order, mkdir, cp, put,
\* each only after the one before it exited with zero; the first non-zero
\* exit ends the upload with False and nothing is issued again; the files
\* already put stay in HDFS; True is returned iff all nine exited with zero.
C4_UploadSequence ==
    /\ Len(cmds) <= Len(Files) * Len(Steps)
    /\ \A j \in DOMAIN cmds :
        /\ cmds[j].cmd = ExpectedCmd(j).cmd
        /\ cmds[j].file = ExpectedCmd(j).file
        /\ j < Len(cmds) => cmds[j].exit = 0
    /\ (cmds # <<>> /\ cmds[Len(cmds)].exit # 0)
            => (pc = "done" /\ upload_ret = "False")
    /\ upload_ret = "True" <=>
            (Len(cmds) = Len(Files) * Len(Steps) /\ AllZero)
    /\ upload_ret = "False" <=> (cmds # <<>> /\ ~AllZero)
    /\ hdfs = {cmds[j].file :
                  j \in {k \in DOMAIN cmds :
                            cmds[k].cmd = "put" /\ cmds[k].exit = 0}}

\* the second file's copy fails after the first file was put
C4_Witness ==
    /\ pc = "done"
    /\ upload_ret = "False"
    /\ Len(cmds) = 5
    /\ hdfs = {Files[1]}

\* C9: in the processed web-log table a row whose raw user_id is missing
\* holds 'anonymous', every other row keeps its raw user_id, and no row is
\* left with a missing user_id.
C9_AnonymousUserId ==
    "web_logs" \in written =>
        /\ Len(processed.web_logs.rows) = Len(raw.web_logs.rows)
        /\ \A i \in DOMAIN raw.web_logs.rows :
            LET before == raw.web_logs.rows[i].user_id
                after == processed.web_logs.rows[i].user_id
            IN  /\ before = "" => after = "anonymous"
                /\ before # "" => after = before
                /\ after # NaN

C9_Witness ==
    /\ "web_logs" \in written
    /\ \E i, j \in DOMAIN raw.web_logs.rows :
        /\ raw.web_logs.rows[i].user_id = ""
        /\ processed.web_logs.rows[i].user_id = "anonymous"
        /\ raw.web_logs.rows[j].user_id = "u1"

----------------------------------------------------------------------------
(* The aggregates and their exports. *)

Completed == agg_ret = "completed"

\* the rows of the processed web-log table with a (date, endpoint) pair
PairRows(date, endpoint) ==
    {i \in DOMAIN processed.web_logs.rows :
        /\ processed.web_logs.rows[i].date = date
        /\ processed.web_logs.rows[i].endpoint = endpoint}

\* C7: the per-(date, endpoint) aggregate has exactly one row per pair that
\* occurs in the processed web-log table and none for another pair; the
\* row's total_requests is the number of rows with the pair and its
\* error_count the number of those with status_code >= 400, so error_count
\* <= total_requests and the total_requests sum to the number of rows.
C7_PerEndpointAggregate ==
    Completed =>
        LET t == processed.web_logs.rows
            a == frames.web_traffic_daily.rows
        IN  /\ \A i \in DOMAIN t :
                Cardinality({n \in DOMAIN a : /\ a[n].date = t[i].date
                                             /\ a[n].endpoint = t[i].endpoint})
                    = 1
            /\ \A n \in DOMAIN a :
                /\ PairRows(a[n].date, a[n].endpoint) # {}
                /\ a[n].total_requests
                       = Cardinality(PairRows(a[n].date, a[n].endpoint))
                /\ a[n].error_count
                       = Cardinality({i \in PairRows(a[n].date, a[n].endpoint) :
                                         t[i].status_code >= 400})
                /\ a[n].error_count <= a[n].total_requests
            /\ SumSeq([n \in DOMAIN a |-> a[n].total_requests]) = Len(t)

\* two requests of one day for one endpoint, one of them an error
C7_Witness ==
    /\ Completed
    /\ \E n \in DOMAIN frames.web_traffic_daily.rows :
        /\ frames.web_traffic_daily.rows[n].total_requests = 2
        /\ frames.web_traffic_daily.rows[n].error_count = 1
    /\ \E i \in DOMAIN processed.web_logs.rows :
        processed.web_logs.rows[i].status_code = 400

DatesOf(df) == {df.rows[i].date : i \in DOMAIN df.rows}

RowOf(df, date) == df.rows[CHOOSE i \in DOMAIN df.rows : df.rows[i].date = date]

\* the columns of a row, as a record
Fields(r, columns) == [x \in Range(columns) |-> r[x]]

\* C8: when the join does not raise, the correlation table has exactly one
\* row for each date present in both daily summaries and none for a date
\* of only one of them, and each row carries that date's web totals and
\* social totals unchanged.
C8_InnerJoinOnDate ==
    (Completed /\ ~merge_failed) =>
        LET c == frames.correlation_data
        IN  /\ DatesOf(c) = DatesOf(frames.web_daily)
                                \cap DatesOf(frames.social_daily)
            /\ Len(c.rows) = Cardinality(DatesOf(c))
            /\ \A i \in DOMAIN c.rows :
                /\ Fields(c.rows[i], WebDailyColumns)
                       = RowOf(frames.web_daily, c.rows[i].date)
                /\ Fields(c.rows[i], SocialDailyColumns)
                       = RowOf(frames.social_daily, c.rows[i].date)

\* two web dates, one social date, one correlation row
C8_Witness ==
    /\ Completed
    /\ ~merge_failed
    /\ DatesOf(frames.web_daily) = {1, 2}
    /\ DatesOf(frames.social_daily) = {1}
    /\ Len(frames.correlation_data.rows) = 1

\* C10: when the join raises the aggregator goes on with a placeholder that
\* has one row per web-daily date, with that date's total_requests,
\* error_count and avg_response_time and the fixed dummy social values, and
\* all five export files are written.
C10_PlaceholderOnJoinFailure ==
    (pc # "aggregate" /\ merge_failed) =>
        LET c == frames.correlation_data
        IN  /\ Completed
            /\ Len(c.rows) = Len(frames.web_daily.rows)
            /\ \A i \in DOMAIN c.rows :
                /\ Fields(c.rows[i], WebDailyColumns) = frames.web_daily.rows[i]
                /\ c.rows[i].post_count = 100
                /\ c.rows[i].total_likes = 500
                /\ c.rows[i].total_shares = 200
                /\ c.rows[i].total_comments = 300
                /\ c.rows[i].avg_engagement = 50
                /\ c.rows[i].avg_sentiment = <<1, 2>>
            /\ \A d \in Range(ExportDirs) :
                /\ exports[d].exists
                /\ ExportFileName \in ListDir(exports[d])
                /\ Len(exports[d].files[ExportFileName])
                       = Len(frames[ExportFrame[d]].rows)
            /\ \A i \in DOMAIN c.rows :
                /\ exports.correlation_data.files[ExportFileName][i][1]
                       = c.rows[i].date
                /\ exports.correlation_data.files[ExportFileName][i][5] = 100

\* the join raised for a web table of two dates whose social dates differ
C10_Witness ==
    /\ Completed
    /\ merge_failed
    /\ Len(frames.correlation_data.rows) = 2
    /\ DatesOf(frames.social_daily) = {3}
    /\ \A d \in Range(ExportDirs) : ExportFileName \in ListDir(exports[d])

\* the dataframe the aggregator wrote to the k-th export directory
Exported(k) == frames[ExportFrame[ExportDirs[k]]]

\* C5: for each of the five aggregates, the preparer run on the export file
\* the aggregator wrote gives a CSV and a manifest record_count with the
\* aggregate's row count (zero rows included), and the CSV's leading columns
\* are the aggregate's columns in the order the aggregator wrote them, with
\* their values.
C5_RoundTrip ==
    (Completed /\ pc = "finished") =>
        /\ prep_ret = "completed"
        /\ \A k \in DOMAIN VizDatasets :
            LET df == Exported(k)
                name == VizDatasets[k]
                csv == viz[name]
            IN  /\ name \in viz_written
                /\ csv.exists
                /\ Len(csv.rows) = Len(df.rows)
                /\ name \in DOMAIN metadata.datasets
                /\ metadata.datasets[name].record_count = Len(df.rows)
                /\ ColsFor(ExportDirs[k]) = df.columns
                /\ SubSeq(csv.columns, 1, Len(df.columns)) = df.columns
                /\ SubSeq(metadata.datasets[name].columns, 1, Len(df.columns))
                       = df.columns
                /\ \A i \in DOMAIN df.rows :
                    /\ csv.rows[i].date.day = df.rows[i].date
                    /\ \A x \in Range(df.columns) \ {"date"} :
                            csv.rows[i][x] = df.rows[i][x]

\* a correlation table without rows next to aggregates with rows
C5_Witness ==
    /\ Completed
    /\ pc = "finished"
    /\ prep_ret = "completed"
    /\ Len(frames.correlation_data.rows) = 0
    /\ Len(viz.correlation.rows) = 0
    /\ viz.correlation.exists
    /\ Len(viz.web_traffic.rows) = 2
    /\ Len(viz.sensor.rows) = 2

\* the k-th dataset's export directory holds a file for load_data to read
HasExportFile(k) == ListDir(exports[ExportDirs[k]]) # {}

\* C11: after the preparer has finished, the manifest has an entry for
\* exactly the datasets whose export file was loaded in this run; the entry's
\* filename is the name of the CSV written in this run, its record_count is
\* that CSV's number of rows and its columns are that CSV's header; a dataset
\* that was not loaded has no entry and no CSV written in this run.
C11_ManifestMatchesCsvs ==
    prep_ret = "completed" =>
        /\ metadata.exists
        /\ DOMAIN metadata.datasets =
               {VizDatasets[k] : k \in {j \in DOMAIN VizDatasets :
                                           HasExportFile(j)}}
        /\ \A k \in DOMAIN VizDatasets :
            LET name == VizDatasets[k]
            IN  IF HasExportFile(k)
                THEN /\ name \in viz_written
                     /\ viz[name].exists
                     /\ metadata.datasets[name].filename
                            = <<name, "_data.csv">>
                     /\ metadata.datasets[name].record_count
                            = Len(viz[name].rows)
                     /\ metadata.datasets[name].columns = viz[name].columns
                ELSE /\ name \notin viz_written
                     /\ name \notin DOMAIN metadata.datasets
                     /\ ~viz[name].exists

\* three datasets loaded, one of them from a file of another name, and two
\* not loaded because their directories are empty
C11_Witness ==
    /\ prep_ret = "completed"
    /\ viz_written = {"web_traffic", "social", "sensor"}
    /\ ExportFileName \notin ListDir(exports.web_traffic_by_endpoint)
    /\ metadata.datasets.social.record_count = 2
    /\ DOMAIN metadata.datasets = viz_written

\* the CSV of dataset `name` holds the lines of `lines` under the columns
\* `cols`
LoadedFrom(name, lines, cols) ==
    /\ name \in viz_written
    /\ viz[name].exists
    /\ SubSeq(viz[name].columns, 1, Len(cols)) = cols
    /\ Len(viz[name].rows) = Len(lines)
    /\ \A i \in DOMAIN lines :
        /\ Len(lines[i]) = Len(cols)
        /\ viz[name].rows[i].date.day = lines[i][1]
        /\ \A c \in 2..Len(cols) : viz[name].rows[i][cols[c]] = lines[i][c]

\* C12: when 000000_0 is absent from an aggregate's directory, the preparer
\* loads a file it finds in that directory with that aggregate's column
\* list; only if the directory holds no file does the dataset load as None,
\* and then the datasets whose directories hold a file are still loaded.
C12_FallbackOrNone ==
    pc = "finished" =>
        \A k \in DOMAIN VizDatasets :
            LET dir == exports[ExportDirs[k]]
            IN  ExportFileName \notin ListDir(dir) =>
                    IF ListDir(dir) # {}
                    THEN \E f \in ListDir(dir) :
                            LoadedFrom(VizDatasets[k], dir.files[f],
                                       ColsFor(ExportDirs[k]))
                    ELSE /\ prep_ret = "completed"
                         /\ VizDatasets[k] \notin viz_written
                         /\ \A j \in DOMAIN VizDatasets :
                                HasExportFile(j) =>
                                    VizDatasets[j] \in viz_written

\* C13: a run of the aggregator in which one of the three processed tables
\* fails to load returns and leaves every export file as it was, those of an
\* earlier run included; export files are written only in a run that
\* computed all five aggregates, and then in the order
\* web_traffic_by_endpoint, web_traffic_hourly, social_engagement,
\* sensor_readings, correlation_data, each holding its aggregate.
C13_ExportsAllOrNothing ==
    [][pc = "aggregate" =>
        /\ (\E d \in Range(Datasets) : ~processed[d].exists) =>
                /\ agg_ret' = "returned"
                /\ exports' = exports
                /\ export_log' = <<>>
        /\ exports' # exports => export_log' # <<>>
        /\ export_log' # <<>> =>
                /\ agg_ret' = "completed"
                /\ \A d \in Range(ExportDirs) :
                    /\ frames'[ExportFrame[d]].exists
                    /\ exports'[d].files[ExportFileName]
                           = ToCsvLines(frames'[ExportFrame[d]])
                /\ export_log' = <<"web_traffic_by_endpoint",
                                   "web_traffic_hourly", "social_engagement",
                                   "sensor_readings", "correlation_data">>
      ]_vars

\* the aggregator returned for a missing processed table and the export
\* files of the earlier run are still there
C13_Witness ==
    /\ agg_ret = "returned"
    /\ \E d \in Range(Datasets) : ~processed[d].exists
    /\ \E d \in Range(Datasets) : processed[d].exists
    /\ exports = EarlierExports
    /\ export_log = <<>>

\* C2: whatever read, transformation or command fails (a missing input
\* file, a missing export directory, a missing column, an empty export
\* file), no script ends by an exception that leaves its top-level function.
C2_NoScriptRaises ==
    /\ agg_ret # "raised"
    /\ prep_ret # "raised"

----------------------------------------------------------------------------
(* The sensor rows. *)

\* C6: every processed sensor row has battery_category 'critical' iff
\* battery_level <= 20, 'low' for 21..50, 'medium' for 51..80 and 'high' iff
\* battery_level > 80, so one of the four buckets for every level of 0..100,
\* and is_active iff status = 'active'.
C6_BatteryBuckets ==
    "sensor_data" \in written =>
        \A i \in DOMAIN processed.sensor_data.rows :
            LET r == processed.sensor_data.rows[i]
            IN  /\ r.battery_category = "critical" <=> r.battery_level <= 20
                /\ r.battery_category = "low" <=>
                        (20 < r.battery_level /\ r.battery_level <= 50)
                /\ r.battery_category = "medium" <=>
                        (50 < r.battery_level /\ r.battery_level <= 80)
                /\ r.battery_category = "high" <=> r.battery_level > 80
                /\ r.battery_category \in Range(Labels)
                /\ r.is_active <=> r.status = "active"

====
